---- MODULE Spec2Model ----
(***************************************************************************)
(* Browser front end of the productivity application: the ApiClient of     *)
(* app/static/src/api.ts (credential life cycle, request and response      *)
(* interceptors), the page controllers that call it, and the browser tabs  *)
(* that share one localStorage.                                            *)
(*                                                                         *)
(* Execution is event-loop driven.  A response is handled in one task:     *)
(* the response interceptor, then the continuation of the ApiClient method *)
(* that awaited the request, then the continuation of the controller that  *)
(* awaited the method.  The variable micro holds the position in that      *)
(* chain; no other handler runs until the chain has ended.                 *)
(***************************************************************************)
EXTENDS Integers, Sequences, FiniteSets, Bags, TLC

\* ------------------------------------------------------------------ bounds
\* Requests in flight at the same time, over all tabs.
MaxInflight == 2

\* header search requests in flight at once
MaxSearches == 2

\* longest tag_ids text tried, besides the documented example
MaxLen == 3

\* longest list of field violations in a 422 body
MaxViolations == 2

\* notify calls followed in one run
MaxNotify == 3

\* delete clicks followed in one run
MaxDeletes == 3

\* ------------------------------------------------------------- value sets
\* null / a missing storage key
Null == "null"
\* no Authorization header on the request
NoHeader == "none"
\* ApiClient instances over the same localStorage (one per tab)
Tabs == {"tabA", "tabB"}
\* access tokens the backend issues
Tokens == {"tok1", "tok2"}
\* decoded payloads of successful non-login responses
Payloads == {"p1", "p2"}
\* HTTP statuses of a response; 0 stands for "no response" (error.response
\* undefined: network failure or timeout)
NoResponse == 0
Statuses == {NoResponse, 200, 401, 403, 422, 500}
\* navigation targets (window.location.href)
Locations == {"/login", "/dashboard"}
\* logical calls, named by the ApiClient method or entity facade function
Ops == {"login", "createTask", "globalSearch", "listTasks"}

VARIABLES
  storage,    \* localStorage['auth_token']: a token or Null
  token,      \* token[t]: ApiClient.token of tab t
  location,   \* location[t]: window.location.href of tab t
  inflight,   \* bag of requests dispatched and not yet answered
  micro,      \* the response being handled and how far its handling got
  cred,       \* history: the credential by its life cycle (login/logout/401)
  lastWrite,  \* history: kind of the last credential write
  fresh,      \* history: tabs whose client was constructed since that write
  \* header search box of the App (one page)
  hValue,     \* value of [data-search-input], a sequence of characters
  hTimer,     \* timeoutId of searchDebounced: NoTimer or the pending timer
  panel,      \* [data-search-results]: hidden class and rendered content
  sreqs,      \* globalSearch requests in flight, in dispatch order
  hClock,     \* history: time since the last input event / debounced call
  hBurst,     \* history: the search calls of the present bursts
  hShown,     \* history: the responses rendered so far
  \* a form[data-api-form] of the App
  fForm,      \* its data-api-form action
  fInput,     \* value of its tag_ids field, a sequence of characters
  fSent,      \* tag_ids of the request body it sent, if any
  fResp,      \* history: the response its request got, if any
  fError,     \* error its submit handler caught, if any
  fToast,     \* text of the notification it showed, if any
  \* the browser's localStorage as the ApiClient meets it
  sMode,      \* "ok", "quota" (setItem throws) or "denied" (any access throws)
  sOp,        \* the last credential operation run
  sEscaped,   \* whether a storage exception escaped from it
  \* the two notifiers: ui/toast.ts (#toasts) and the Toast class
  tHasMount,  \* whether the page has the #toasts element
  tBoxes,     \* children of #toasts ("mount") and of Toast.container
  tNext,      \* history: number of the next notify call
  tFate,      \* history: what became of the notice of each notify call
  tWarnings,  \* history: console.warn calls of ui/toast.ts
  tLast,      \* history: the last 'toast' event and what it led to
  \* the App as its page loads
  lPage,      \* App.currentPage, "none" before the App is constructed
  lRequests,  \* data-loading requests of loadInitialData in flight
  lLoad,      \* history: what the last page load found and did
  \* the submit button of a form[data-api-form]
  bText,      \* its textContent
  bDisabled,  \* its disabled property
  bPending,   \* the handleFormSubmission call that is pending, if any
  bLast,      \* history: the last submission and how it settled
  \* the delete buttons of the tasks page
  dPending,   \* delete requests in flight, per task id
  dLoading,   \* list reloads in flight
  dHist,      \* history: dialogs, requests, toasts and reloads so far
  \* the modals
  mMade,      \* per modal: "none", or how it was constructed
  mBody,      \* the nodes the modals appended to document.body, in order
  mOverflow,  \* document.body.style.overflow
  mOp,        \* history: the last operation on a modal
  mRaised     \* history: the modals whose close() raised an error in it

\* the ApiClient, its requests and the pages' navigation
coreVars ==
  <<storage, token, location, inflight, micro, cred, lastWrite, fresh>>

\* the header search box
headerVars == <<hValue, hTimer, panel, sreqs, hClock, hBurst, hShown>>

\* a form
formVars == <<fForm, fInput, fSent, fResp, fError, fToast>>

\* the storage's health
storeVars == <<sMode, sOp, sEscaped>>

\* the App's page load
loadVars == <<lPage, lRequests, lLoad>>

\* a form's submit button
buttonVars == <<bText, bDisabled, bPending, bLast>>

\* task deletion
deleteVars == <<dPending, dLoading, dHist>>

\* the modals
modalVars == <<mMade, mBody, mOverflow, mOp, mRaised>>

\* the notifiers
toastVars == <<tHasMount, tBoxes, tNext, tFate, tWarnings, tLast>>

\* the state of the other components
auxVars ==
  <<headerVars, formVars, storeVars, toastVars, loadVars, buttonVars,
    deleteVars, modalVars>>

vars == <<coreVars, auxVars>>

\* no query: nothing rendered, nothing asked
NoQuery == <<>>

\* no timer pending (timeoutId undefined or already run)
NoTimer == [left |-> -1, arg |-> NoQuery]

\* debounce delay of the search boxes, in ms
DebounceDelay == 300

\* shortest trimmed query the header box searches for
MinQueryLen == 2

\* a burst of events or of debounced calls without a search call so far
NoBurst ==
  [active |-> FALSE, n |-> 0, last |-> <<>>, calls |-> 0,
   callArg |-> <<>>, onTime |-> TRUE]

\* the header box as the page loads: empty input, no timer, panel hidden
HeaderIdle ==
  /\ hValue = <<>>
  /\ hTimer = NoTimer
  /\ panel = [hidden |-> TRUE, content |-> NoQuery]
  /\ sreqs = <<>>
  /\ hClock = [event |-> DebounceDelay, call |-> DebounceDelay]
  /\ hBurst = [event |-> NoBurst, call |-> NoBurst]
  /\ hShown = [last |-> NoQuery, lastWasNewest |-> FALSE,
               newest |-> NoQuery, newestShown |-> FALSE]

\* nothing sent yet
NotSent == [sent |-> FALSE, defined |-> FALSE, ids |-> <<>>]

\* no detail in the response body, or no response body at all
NoDetail == [kind |-> "none", items |-> <<>>, text |-> ""]

\* no response so far
NoAnswer == [status |-> NoResponse, detail |-> NoDetail]

\* nothing caught
NoError == [status |-> NoResponse, detail |-> NoDetail, message |-> ""]

\* no notification
NoToast == [type |-> "none", message |-> ""]

\* a form as the page loads: nothing typed, nothing submitted
FormIdle ==
  /\ fForm = "create-task"
  /\ fInput = <<>>
  /\ fSent = NotSent
  /\ fResp = NoAnswer
  /\ fError = NoError
  /\ fToast = NoToast

\* a storage that works
StoreIdle ==
  /\ sMode = "ok"
  /\ sOp = "none"
  /\ sEscaped = FALSE


\* display time of a notice of ui/toast.ts, in ms
ToastDuration == 3500

\* display time of a notice of Toast.show when the caller gives none
DefaultDuration == 5000

\* length of the exit transition of both notifiers
ExitDelay == 300

\* no notify call of that number yet
NoFate == [state |-> "unused", duration |-> 0, age |-> 0]

\* no 'toast' event yet
NoEvent ==
  [valid |-> TRUE, created |-> FALSE, warned |-> FALSE, uncaught |-> FALSE]

\* the notifiers with nothing shown yet
ToastsEmpty ==
  /\ tBoxes = [b \in {"mount", "container"} |-> <<>>]
  /\ tNext = 1
  /\ tFate = [id \in 1..MaxNotify |-> NoFate]
  /\ tWarnings = IF tHasMount THEN 0 ELSE 1
  /\ tLast = NoEvent

\* the notifiers on a page that has #toasts, nothing shown
ToastIdle == tHasMount = TRUE /\ ToastsEmpty

\* tasks the list shows
TaskIds == {1, 2}

\* modal instances
Modals == {"m1", "m2"}

\* no page load followed yet
NoLoad == [auth |-> FALSE, redirected |-> FALSE, issued |-> 0]

\* the App not constructed
LoadIdle ==
  /\ lPage = "none"
  /\ lRequests = {}
  /\ lLoad = NoLoad

\* no handleFormSubmission call pending
NoHandler == [action |-> "none", originalText |-> ""]

\* the button's label in the template, no submission so far
NoSubmission == [label |-> "Save", action |-> "none", outcome |-> "none"]

\* a submit button as the template renders it
ButtonIdle ==
  /\ bText = "Save"
  /\ bDisabled = FALSE
  /\ bPending = NoHandler
  /\ bLast = NoSubmission

\* nothing asked, sent, shown or reloaded
NoDeletes ==
  [dialogs |-> 0, declined |-> 0, confirmed |-> [id \in TaskIds |-> 0],
   dispatched |-> [id \in TaskIds |-> 0], succeeded |-> 0, failed |-> 0,
   toasts |-> 0, reloads |-> 0]

\* the tasks page with no delete going on
DeleteIdle ==
  /\ dPending = [id \in TaskIds |-> 0]
  /\ dLoading = 0
  /\ dHist = NoDeletes

\* no modal constructed
ModalIdle ==
  /\ mMade = [m \in Modals |-> "none"]
  /\ mBody = <<>>
  /\ mOverflow = ""
  /\ mOp = "none"
  /\ mRaised = {}

\* the components the credential model leaves out, at rest
PagesIdle == LoadIdle /\ ButtonIdle /\ DeleteIdle /\ ModalIdle

\* the other components at rest
AuxIdle == HeaderIdle /\ FormIdle /\ StoreIdle /\ ToastIdle /\ PagesIdle

\* ---------------------------------------------------------------- helpers
NoBody == [access_token |-> Null, payload |-> Null]

Idle ==
  [stage |-> "idle", tab |-> Null, op |-> Null, status |-> NoResponse,
   body |-> NoBody, settled |-> "pending", result |-> NoBody,
   handler |-> "none", clientToasts |-> 0, toasts |-> 0, sends |-> 0,
   auth |-> NoHeader,
   before |-> [token |-> Null, storage |-> Null, location |-> Null,
               lastWrite |-> "none"]]

\* axios validateStatus default: 2xx resolves, everything else rejects
Is2xx(status) == status >= 200 /\ status <= 299

Bearer(tk) == "Bearer " \o tk

\* bodies a response with this status can carry for this call: a Token for
\* a successful login, a payload for another success, and for an error
\* response either nothing or some body (whatever the server chose to send)
BodiesOf(op, status) ==
  IF Is2xx(status)
  THEN IF op = "login"
       THEN {[access_token |-> tk, payload |-> Null] : tk \in Tokens}
       ELSE {[access_token |-> Null, payload |-> p] : p \in Payloads}
  ELSE IF status = NoResponse
       THEN {NoBody}
       ELSE {NoBody, [access_token |-> "tok1", payload |-> "p1"]}

\* ------------------------------------------------------------- ApiClient
\* getToken(): this.token || localStorage.getItem('auth_token')
GetToken(t) == IF token[t] # Null THEN token[t] ELSE storage

\* isAuthenticated(): !!this.getToken()
IsAuthenticated(t) == GetToken(t) # Null

\* setToken that forgets localStorage.setItem
SetTokenMemoryOnly(t, tk) ==
  /\ token' = [token EXCEPT ![t] = tk]
  /\ storage' = storage

\* setToken(token)
SetToken(t, tk) ==
  /\ token' = [token EXCEPT ![t] = tk]
  /\ storage' = tk

\* clearToken that forgets localStorage.removeItem
ClearTokenMemoryOnly(t) ==
  /\ token' = [token EXCEPT ![t] = Null]
  /\ storage' = storage

\* clearToken()
ClearToken(t) ==
  /\ token' = [token EXCEPT ![t] = Null]
  /\ storage' = Null

\* request interceptor that sends the token without the 'Bearer ' scheme
RequestInterceptorRawToken(t) ==
  IF token[t] # Null THEN token[t]
  ELSE IF storage # Null THEN storage ELSE NoHeader

\* request interceptor: the Authorization header of a request of tab t
RequestInterceptor(t) ==
  IF GetToken(t) # Null THEN Bearer(GetToken(t)) ELSE NoHeader

\* error branch that clears the token on a 401 but does not redirect
OnRejectedNoRedirect(status) ==
  [clear |-> status = 401, redirect |-> FALSE, settle |-> "rejected",
   resend |-> FALSE, toasts |-> 0]

\* error branch that treats a 403 like a 401
OnRejectedClearOn403(status) ==
  [clear |-> status \in {401, 403}, redirect |-> status \in {401, 403},
   settle |-> "rejected", resend |-> FALSE, toasts |-> 0]

\* error branch that swallows the error (no Promise.reject)
OnRejectedSwallow(status) ==
  [clear |-> status = 401, redirect |-> status = 401, settle |-> "fulfilled",
   resend |-> FALSE, toasts |-> 0]

\* error branch that sends the request again on a server error
OnRejectedRetry(status) ==
  [clear |-> status = 401, redirect |-> status = 401, settle |-> "rejected",
   resend |-> status >= 500, toasts |-> 0]

\* error branch that redirects on a 401 but leaves the credential alone
OnRejectedNoClear(status) ==
  [clear |-> FALSE, redirect |-> status = 401, settle |-> "rejected",
   resend |-> FALSE, toasts |-> 0]

\* response interceptor, error branch: what it does for a failed request.
\* clear: clearToken() is called; redirect: location.href = '/login';
\* settle: how the returned promise settles; resend: the request is sent
\* again; toasts: notifications it emits.
OnRejected(status) ==
  [clear    |-> status = 401,
   redirect |-> status = 401,
   settle   |-> "rejected",
   resend   |-> FALSE,
   toasts   |-> 0]

\* response interceptor, success branch: (response) => response
OnFulfilled(status) ==
  [clear |-> FALSE, redirect |-> FALSE, settle |-> "fulfilled",
   resend |-> FALSE, toasts |-> 0]

ResponseInterceptor(status) ==
  IF Is2xx(status) THEN OnFulfilled(status) ELSE OnRejected(status)

\* history of the credential's life cycle
Wrote(kind, tk) ==
  /\ cred' = tk
  /\ lastWrite' = kind
  /\ fresh' = {}

NoWrite == UNCHANGED <<cred, lastWrite, fresh>>

\* ------------------------------------------------------------------ Init
CoreInit ==
  /\ storage \in Tokens \cup {Null}
  /\ token = [t \in Tabs |-> storage]
  /\ location \in [Tabs -> Locations]
  /\ inflight = EmptyBag
  /\ micro = Idle
  /\ cred = storage
  /\ lastWrite = "none"
  /\ fresh = Tabs

Init == CoreInit /\ AuxIdle

\* --------------------------------------------------------------- actions
\* One logical call: the request interceptor builds the header, the request
\* goes on the wire once.
Send(t, op) ==
  /\ micro.stage = "idle"
  /\ BagCardinality(inflight) < MaxInflight
  /\ inflight' = inflight (+) SetToBag({[tab |-> t, op |-> op,
                                         auth |-> RequestInterceptor(t),
                                         sends |-> 1]})
  /\ UNCHANGED <<storage, token, location, micro>>
  /\ NoWrite

\* form 'login': handleFormSubmission -> handleLogin -> api.login, to its await
SubmitLogin(t) == Send(t, "login")

\* form 'create-task': handleFormSubmission -> handleCreateTask -> api.createTask
SubmitCreateTask(t) == Send(t, "createTask")

\* header search box: performSearch -> api.globalSearch
PerformSearch(t) == Send(t, "globalSearch")

\* tasks page: loadTasks -> listTasks -> api.get
LoadTasks(t) == Send(t, "listTasks")

\* a method that returns nothing instead of response.data
MethodResultDropsData(op, settled, body) == NoBody

\* ApiClient method, after its await: what it returns to its caller.
\* login returns response.data after setToken; the others return
\* response.data; a rejection propagates.
MethodResult(op, settled, body) ==
  IF settled = "fulfilled" THEN body ELSE NoBody

\* Controller, after its await: the branch that runs, the notifications it
\* shows (Toast.show / toast.*) and the navigation it asks for.
\*   login, createTask: handleFormSubmission shows 'Success!' after the
\*     handler returned; a throw reaches initForms' catch -> handleFormError,
\*     which shows one error toast.  handleLogin sets href = '/dashboard';
\*     handleCreateTask calls location.reload() (same target).
\*   globalSearch: performSearch renders, or logs the error.
\*   listTasks: loadTasks renders, or writes 'Failed to load tasks.'
ControllerEffect(op, settled) ==
  [handler |-> IF settled = "fulfilled" THEN "then" ELSE "catch",
   toasts  |-> IF op \in {"login", "createTask"} THEN 1 ELSE 0,
   goto    |-> IF op = "login" /\ settled = "fulfilled"
               THEN "/dashboard" ELSE Null]

\* requests of the other tabs: a page that unloads drops its own
DropTab(bag, t) ==
  [r \in {x \in DOMAIN bag : x.tab # t} |-> bag[r]]

\* A response (or the lack of one) arrives for request r: the response
\* interceptor runs.
Respond(r, status, body) ==
  LET eff == ResponseInterceptor(status)
      t   == r.tab
  IN
  /\ micro.stage = "idle"
  /\ BagIn(r, inflight)
  /\ body \in BodiesOf(r.op, status)
  /\ IF eff.clear
     THEN ClearToken(t) /\ Wrote("clear", Null)
     ELSE UNCHANGED <<token, storage>> /\ NoWrite
  /\ location' = IF eff.redirect
                 THEN [location EXCEPT ![t] = "/login"]
                 ELSE location
  /\ IF eff.resend
     THEN /\ inflight' = (inflight (-) SetToBag({r}))
                           (+) SetToBag({[r EXCEPT !.sends = @ + 1]})
          /\ micro' = micro
     ELSE /\ inflight' = inflight (-) SetToBag({r})
          /\ micro' = [stage |-> "method", tab |-> t, op |-> r.op,
                       status |-> status, body |-> body,
                       settled |-> eff.settle, result |-> NoBody,
                       handler |-> "none", clientToasts |-> eff.toasts,
                       toasts |-> eff.toasts, sends |-> r.sends,
                       auth |-> r.auth,
                       before |-> [token |-> token[t], storage |-> storage,
                                   location |-> location[t],
                                   lastWrite |-> lastWrite]]

\* The ApiClient method resumes after `await this.client...`.
MethodContinue(t) ==
  /\ micro.stage = "method"
  /\ micro.tab = t
  /\ IF micro.op = "login" /\ micro.settled = "fulfilled"
     THEN SetToken(t, micro.body.access_token)
          /\ Wrote("set", micro.body.access_token)
     ELSE UNCHANGED <<token, storage>> /\ NoWrite
  /\ micro' = [micro EXCEPT !.stage = "controller",
                            !.result = MethodResult(micro.op, micro.settled,
                                                    micro.body)]
  /\ UNCHANGED <<location, inflight>>

\* The controller resumes after `await api...`.
ControllerContinue(t) ==
  LET eff == ControllerEffect(micro.op, micro.settled) IN
  /\ micro.stage = "controller"
  /\ micro.tab = t
  /\ micro' = [micro EXCEPT !.stage = "done",
                            !.handler = eff.handler,
                            !.toasts = @ + eff.toasts]
  /\ location' = IF eff.goto # Null
                 THEN [location EXCEPT ![t] = eff.goto]
                 ELSE location
  /\ UNCHANGED <<token, storage, inflight>>
  /\ NoWrite

\* The task that handled the response ends; the event loop is idle again.
EndTask(t) ==
  /\ micro.stage = "done"
  /\ micro.tab = t
  /\ micro' = Idle
  /\ UNCHANGED <<token, storage, location, inflight>>
  /\ NoWrite

\* [data-logout] click: handleLogout -> api.logout() -> clearToken, then
\* href = '/login'.
Logout(t) ==
  /\ micro.stage = "idle"
  /\ ClearToken(t)
  /\ Wrote("clear", Null)
  /\ location' = [location EXCEPT ![t] = "/login"]
  /\ UNCHANGED <<inflight, micro>>

\* The page of tab t (re)loads: its pending requests die with the old
\* document and a new ApiClient is constructed over the same storage.
PageLoad(t) ==
  /\ micro.stage = "idle"
  /\ token' = [token EXCEPT ![t] = storage]
  /\ inflight' = DropTab(inflight, t)
  /\ fresh' = fresh \cup {t}
  /\ UNCHANGED <<storage, location, micro, cred, lastWrite>>

TabStep(t) ==
  \/ SubmitLogin(t) /\ UNCHANGED auxVars
  \/ SubmitCreateTask(t) /\ UNCHANGED auxVars
  \/ PerformSearch(t) /\ UNCHANGED auxVars
  \/ LoadTasks(t) /\ UNCHANGED auxVars
  \/ \E r \in BagToSet(inflight), status \in Statuses :
       /\ r.tab = t
       /\ \E body \in BodiesOf(r.op, status) : Respond(r, status, body)
       /\ UNCHANGED auxVars
  \/ MethodContinue(t) /\ UNCHANGED auxVars
  \/ ControllerContinue(t) /\ UNCHANGED auxVars
  \/ EndTask(t) /\ UNCHANGED auxVars
  \/ Logout(t) /\ UNCHANGED auxVars
  \/ PageLoad(t) /\ UNCHANGED auxVars

Next == \E t \in Tabs : TabStep(t)

Spec == Init /\ [][Next]_vars

\* one tab alone: a single ApiClient instance over the storage
NextOne == TabStep("tabA")

SpecOne == Init /\ [][NextOne]_vars

\* ------------------------------------------------------ header search box
\* what the user can have in the box after an input event
InputValues == {<<"a">>, <<"a", "b">>, <<"a", "b", "c">>, <<"a", " ">>}

\* amounts of time that pass between two steps, in ms
TimeSteps == {100, 200, 300}

RECURSIVE TrimStart(_)
TrimStart(s) ==
  IF s # <<>> /\ Head(s) = " " THEN TrimStart(Tail(s)) ELSE s

RECURSIVE TrimEnd(_)
TrimEnd(s) ==
  IF s # <<>> /\ s[Len(s)] = " "
  THEN TrimEnd(SubSeq(s, 1, Len(s) - 1))
  ELSE s

\* String.prototype.trim
Trim(s) == TrimEnd(TrimStart(s))

\* a debounce that leaves a pending timer alone instead of replacing it
DebounceKeepsPending(timer, arg) ==
  IF timer # NoTimer THEN timer ELSE [left |-> DebounceDelay, arg |-> arg]

\* debounce(func, delay), one call of the returned function:
\* clearTimeout(timeoutId); timeoutId = setTimeout(() => func(arg), delay)
Debounce(timer, arg) == [left |-> DebounceDelay, arg |-> arg]

\* a performSearch that renders only the response of its latest request
RendersNewestOnly(r) == r.newest

\* performSearch after its await: the fulfilled response of request r is
\* rendered, whichever request it answers
Renders(r) == TRUE

Min(a, b) == IF a < b THEN a ELSE b

\* history: a burst goes on if the gap was shorter than the delay
Continued(burst, gap) == IF gap >= DebounceDelay THEN NoBurst ELSE burst

\* history: one more event (or debounced call) with this value
Joined(burst, gap, value) ==
  [Continued(burst, gap) EXCEPT !.active = TRUE, !.n = Min(@ + 1, 3),
                               !.last = value]

\* history: one more search call in a burst
Called(burst, gap, arg) ==
  [burst EXCEPT !.calls = Min(@ + 1, 2), !.callArg = arg,
                !.onTime = gap >= DebounceDelay]

\* 'input' listener of [data-search-input]
HeaderInput(v) ==
  LET query == Trim(v) IN
  /\ v # hValue
  /\ hTimer = NoTimer \/ hTimer.left > 0
  /\ Len(sreqs) < MaxSearches
  /\ hValue' = v
  /\ IF Len(query) >= MinQueryLen
     THEN /\ hTimer' = Debounce(hTimer, query)
          /\ panel' = panel
          /\ hClock' = [event |-> 0, call |-> 0]
          /\ hBurst' = [event |-> Joined(hBurst.event, hClock.event, query),
                        call  |-> Joined(hBurst.call, hClock.call, query)]
     ELSE /\ hTimer' = hTimer
          /\ panel' = [panel EXCEPT !.hidden = TRUE]
          /\ hClock' = [hClock EXCEPT !.event = 0]
          /\ hBurst' = [hBurst EXCEPT
                          !.event = Joined(@, hClock.event, query)]
  /\ UNCHANGED <<sreqs, hShown>>
  /\ UNCHANGED coreVars

\* time passes; a timer that is due runs before anything later happens
Elapse(d) ==
  /\ hTimer = NoTimer \/ d <= hTimer.left
  /\ hTimer # NoTimer \/ hClock.event < DebounceDelay
  /\ hTimer' = IF hTimer = NoTimer THEN hTimer
               ELSE [hTimer EXCEPT !.left = @ - d]
  /\ hClock' = [event |-> Min(hClock.event + d, DebounceDelay),
                call  |-> Min(hClock.call + d, DebounceDelay)]
  /\ UNCHANGED <<hValue, panel, sreqs, hBurst, hShown>>
  /\ UNCHANGED coreVars

\* the debounce timer runs: performSearch(query) up to its await, the
\* request interceptor included
TimerFire ==
  /\ hTimer # NoTimer
  /\ hTimer.left = 0
  /\ hTimer' = NoTimer
  /\ sreqs' = Append([i \in DOMAIN sreqs |->
                        [sreqs[i] EXCEPT !.newest = FALSE]],
                     [query |-> hTimer.arg, newest |-> TRUE,
                      auth |-> RequestInterceptor("tabA")])
  /\ hBurst' = [event |-> Called(hBurst.event, hClock.event, hTimer.arg),
                call  |-> Called(hBurst.call, hClock.call, hTimer.arg)]
  /\ hShown' = [hShown EXCEPT !.newest = hTimer.arg, !.newestShown = FALSE]
  /\ UNCHANGED <<hValue, panel, hClock>>
  /\ UNCHANGED coreVars

\* the i-th pending search settles: response interceptor, globalSearch,
\* then performSearch after its await (render and show, or console.error)
SearchRespond(i, status) ==
  LET r     == sreqs[i]
      eff   == ResponseInterceptor(status)
      shown == eff.settle = "fulfilled" /\ Renders(r)
  IN
  /\ i \in DOMAIN sreqs
  /\ IF eff.clear
     THEN ClearToken("tabA") /\ Wrote("clear", Null)
     ELSE UNCHANGED <<token, storage>> /\ NoWrite
  /\ location' = IF eff.redirect
                 THEN [location EXCEPT !["tabA"] = "/login"]
                 ELSE location
  /\ sreqs' = [j \in 1..(Len(sreqs) - 1) |->
                 IF j < i THEN sreqs[j] ELSE sreqs[j + 1]]
  /\ panel' = IF shown
              THEN [hidden |-> FALSE, content |-> r.query]
              ELSE panel
  /\ hShown' = IF eff.settle = "fulfilled"
               THEN [hShown EXCEPT !.last = r.query,
                                   !.lastWasNewest = r.newest,
                                   !.newestShown = @ \/ r.newest]
               ELSE hShown
  /\ UNCHANGED <<hValue, hTimer, hClock, hBurst>>
  /\ UNCHANGED <<inflight, micro>>

\* what the header box leaves alone
besideHeader ==
  <<formVars, storeVars, toastVars, loadVars, buttonVars, deleteVars,
    modalVars>>

NextHeader ==
  \/ (\E v \in InputValues : HeaderInput(v)) /\ UNCHANGED besideHeader
  \/ (\E d \in TimeSteps : Elapse(d)) /\ UNCHANGED besideHeader
  \/ TimerFire /\ UNCHANGED besideHeader
  \/ /\ \E i \in 1..MaxSearches, status \in Statuses :
          SearchRespond(i, status)
     /\ UNCHANGED besideHeader

\* a page that carries the header box is open in every tab
InitHeader ==
  /\ Init
  /\ location = [t \in Tabs |-> "/dashboard"]

\* the header search box of one page, nothing else going on
SpecHeader == InitHeader /\ [][NextHeader]_vars

\* ------------------------------------------------------------------ forms
\* forms that carry a tag_ids field
Forms == {"create-task", "create-note", "create-collection"}

Digits == {"1", "2"}

\* characters typed into the tag_ids field
TagChars == Digits \cup {",", " ", "x"}

\* the documented example: "1, 2,2,x"
ExampleTags == <<"1", ",", " ", "2", ",", "2", ",", "x">>

TagInputs ==
  UNION {[1..n -> TagChars] : n \in 0..MaxLen} \cup {ExampleTags}

\* the value parseInt gives when the text starts with no digit
NaN == [nan |-> TRUE, val |-> 0]

DigitVal(c) == IF c = "1" THEN 1 ELSE 2

\* String.prototype.split(',')
RECURSIVE Split(_)
Split(s) ==
  IF \E i \in DOMAIN s : s[i] = ","
  THEN LET i == CHOOSE k \in DOMAIN s :
                  /\ s[k] = ","
                  /\ \A j \in 1..(k - 1) : s[j] # ","
       IN <<SubSeq(s, 1, i - 1)>> \o Split(SubSeq(s, i + 1, Len(s)))
  ELSE <<s>>

\* the leading decimal digits of a text
RECURSIVE DigitPrefix(_)
DigitPrefix(s) ==
  IF s # <<>> /\ Head(s) \in Digits
  THEN <<Head(s)>> \o DigitPrefix(Tail(s))
  ELSE <<>>

RECURSIVE Decimal(_)
Decimal(ds) ==
  IF ds = <<>> THEN 0
  ELSE 10 * Decimal(SubSeq(ds, 1, Len(ds) - 1)) + DigitVal(ds[Len(ds)])

\* parseInt(text): leading white space skipped, then the longest prefix of
\* digits; NaN when there is none
ParseInt(s) ==
  LET ds == DigitPrefix(TrimStart(s)) IN
  IF ds = <<>> THEN NaN ELSE [nan |-> FALSE, val |-> Decimal(ds)]

\* data.tag_ids ? data.tag_ids.split(',').map(id => parseInt(id.trim()))
\*              : undefined
ParseTagIds(s) ==
  IF s = <<>>
  THEN [sent |-> TRUE, defined |-> FALSE, ids |-> <<>>]
  ELSE LET parts == Split(s) IN
       [sent |-> TRUE, defined |-> TRUE,
        ids |-> [i \in DOMAIN parts |-> ParseInt(Trim(parts[i]))]]

\* field violations a 422 body can list
Violations ==
  {[location |-> <<"body", "title">>, message |-> "required"],
   [location |-> <<"body", "tag_ids", "0">>, message |-> "not an integer"]}

Text(str) == [kind |-> "text", items |-> <<>>, text |-> str]

\* the `detail` a response of this status can carry
Details(status) ==
  IF status = 422
  THEN {[kind |-> "list", items |-> vs, text |-> ""] :
          vs \in UNION {[1..n -> Violations] : n \in 0..MaxViolations}}
       \cup {Text("Validation failed")}
  ELSE IF status = NoResponse \/ Is2xx(status)
       THEN {NoDetail}
       ELSE {NoDetail, Text(""), Text("Internal Server Error")}

\* statuses a form's request ends with (a 401 leaves the page)
FormStatuses == {NoResponse, 200, 422, 500}

\* AxiosError.message
AxiosMessage(status) ==
  IF status = NoResponse THEN "Network Error"
  ELSE IF status = 422 THEN "Request failed with status code 422"
  ELSE "Request failed with status code 500"

RECURSIVE Join(_, _)
\* Array.prototype.join
Join(strs, sep) ==
  IF strs = <<>> THEN ""
  ELSE IF Len(strs) = 1 THEN strs[1]
  ELSE strs[1] \o sep \o Join(Tail(strs), sep)

\* a || b on a detail: an array is truthy, a string unless empty
Truthy(detail) ==
  detail.kind = "list" \/ (detail.kind = "text" /\ detail.text # "")

\* `${message}`: a string as it is, an array through toString, which is
\* join(',') of its elements' String() -- '[object Object]' for an object
TemplateText(message) ==
  IF message.kind = "list"
  THEN Join([i \in DOMAIN message.items |-> "[object Object]"], ",")
  ELSE message.text

\* handleFormError: the notification shown for a caught error
HandleFormError(error) ==
  LET message == IF Truthy(error.detail) THEN error.detail
                 ELSE IF error.message # "" THEN Text(error.message)
                 ELSE Text("An error occurred")
  IN [type |-> "error", message |-> TemplateText(message)]

\* submit of a form with a tag_ids field: handleFormSubmission ->
\* handleCreateTask / Note / Collection, to the await of the api call
FormSubmit ==
  /\ ~fSent.sent
  /\ fSent' = ParseTagIds(fInput)
  /\ UNCHANGED <<fForm, fInput, fResp, fError, fToast>>
  /\ UNCHANGED coreVars

\* the request of the form settles: response interceptor, api method, then
\* 'Success!' or the submit handler's catch -> handleFormError
FormSettle(status, detail) ==
  LET eff == ResponseInterceptor(status) IN
  /\ fSent.sent
  /\ fToast = NoToast
  /\ detail \in Details(status)
  /\ fResp' = [status |-> status, detail |-> detail]
  /\ IF eff.settle = "fulfilled"
     THEN /\ fError' = NoError
          /\ fToast' = [type |-> "success", message |-> "Success!"]
     ELSE LET error == [status |-> status, detail |-> detail,
                        message |-> AxiosMessage(status)]
          IN /\ fError' = error
             /\ fToast' = HandleFormError(error)
  /\ UNCHANGED <<fForm, fInput, fSent>>
  /\ UNCHANGED coreVars

\* what a form leaves alone
besideForm ==
  <<headerVars, storeVars, toastVars, loadVars, buttonVars, deleteVars,
    modalVars>>

NextForm ==
  \/ FormSubmit /\ UNCHANGED besideForm
  \/ /\ \E status \in FormStatuses :
          \E detail \in Details(status) : FormSettle(status, detail)
     /\ UNCHANGED besideForm

\* any form with a tag_ids field, any text in the field
InitForm ==
  /\ CoreInit
  /\ location = [t \in Tabs |-> "/dashboard"]
  /\ HeaderIdle
  /\ StoreIdle
  /\ ToastIdle
  /\ PagesIdle
  /\ fForm \in Forms
  /\ fInput \in TagInputs
  /\ fSent = NotSent
  /\ fResp = NoAnswer
  /\ fError = NoError
  /\ fToast = NoToast

\* one submission of one form
SpecForm == InitForm /\ [][NextForm]_vars

\* ------------------------------------------------- storage that can fail
StoreModes == {"ok", "quota", "denied"}

\* whether this localStorage call throws: every access does when storage is
\* denied, setItem alone when the quota is exhausted
Throws(call) ==
  sMode = "denied" \/ (sMode = "quota" /\ call = "setItem")

\* the page loads: new ApiClient(), this.token = localStorage.getItem(..)
StoreConstruct ==
  /\ sOp' = "construct"
  /\ sEscaped' = Throws("getItem")
  /\ token' = [token EXCEPT !["tabA"] =
                 IF Throws("getItem") THEN Null ELSE storage]
  /\ fresh' = IF Throws("getItem") THEN fresh ELSE fresh \cup {"tabA"}
  /\ UNCHANGED <<storage, location, inflight, micro, cred, lastWrite, sMode>>

\* the module loaded: `api` exists
Constructed == ~(sOp = "construct" /\ sEscaped)

\* request interceptor: getToken() reads the storage when this.token is
\* falsy
StoreRequest ==
  /\ Constructed
  /\ sOp' = "request"
  /\ sEscaped' = (token["tabA"] = Null /\ Throws("getItem"))
  /\ UNCHANGED <<coreVars, sMode>>

\* login answered 2xx: setToken(access_token), then handleLogin's redirect
StoreLogin(tk) ==
  /\ Constructed
  /\ sOp' = "login"
  /\ sEscaped' = Throws("setItem")
  /\ token' = [token EXCEPT !["tabA"] = tk]
  /\ IF Throws("setItem")
     THEN UNCHANGED <<storage, location>> /\ NoWrite
     ELSE /\ storage' = tk
          /\ Wrote("set", tk)
          /\ location' = [location EXCEPT !["tabA"] = "/dashboard"]
  /\ UNCHANGED <<inflight, micro, sMode>>

\* clearToken() and what follows it when it returns
StoreClear(op) ==
  /\ Constructed
  /\ sOp' = op
  /\ sEscaped' = Throws("removeItem")
  /\ token' = [token EXCEPT !["tabA"] = Null]
  /\ IF Throws("removeItem")
     THEN UNCHANGED <<storage, location>> /\ NoWrite
     ELSE /\ storage' = Null
          /\ Wrote("clear", Null)
          /\ location' = [location EXCEPT !["tabA"] = "/login"]
  /\ UNCHANGED <<inflight, micro, sMode>>

\* handleLogout: api.logout(), and api.clearToken() again in its catch
StoreLogout == StoreClear("logout")

\* response interceptor on a 401: clearToken(), then href = '/login'
StoreUnauthorized == StoreClear("401")

\* the storage fills up, is denied by the browser, or works again
StorageTurns(m) ==
  /\ m # sMode
  /\ sMode' = m
  /\ UNCHANGED <<coreVars, sOp, sEscaped>>

\* what the credential operations leave alone
besideStore ==
  <<headerVars, formVars, toastVars, loadVars, buttonVars, deleteVars,
    modalVars>>

NextStore ==
  \/ StoreConstruct /\ UNCHANGED besideStore
  \/ StoreRequest /\ UNCHANGED besideStore
  \/ (\E tk \in Tokens : StoreLogin(tk)) /\ UNCHANGED besideStore
  \/ StoreLogout /\ UNCHANGED besideStore
  \/ StoreUnauthorized /\ UNCHANGED besideStore
  \/ (\E m \in StoreModes : StorageTurns(m)) /\ UNCHANGED besideStore

\* one client over a storage of any health
InitStore ==
  /\ CoreInit
  /\ HeaderIdle
  /\ FormIdle
  /\ ToastIdle
  /\ PagesIdle
  /\ sMode \in StoreModes
  /\ sOp = "none"
  /\ sEscaped = FALSE

SpecStore == InitStore /\ [][NextStore]_vars

\* -------------------------------------------------------------- notices
Boxes == {"mount", "container"}

\* event.detail of a 'toast' event: whether it is there, and whether its
\* type and message are strings
EventDetails ==
  [present : BOOLEAN, typeIsString : BOOLEAN, messageIsString : BOOLEAN]

\* detail && typeof detail.type === 'string'
\*        && typeof detail.message === 'string'
ValidDetail(detail) ==
  detail.present /\ detail.typeIsString /\ detail.messageIsString

\* durations a caller of Toast.show asks for
ShowDurations == {DefaultDuration, 2000}

\* a showToast without the guard: appendChild on a null mount throws
ShowToastUnguarded(hasMount) == IF hasMount THEN "append" ELSE "throw"

\* showToast: if (!mount) return; otherwise the notice is appended
ShowToast(hasMount) == IF hasMount THEN "append" ELSE "return"

\* a notice as appendChild leaves it, its display timer armed
Notice(id, duration) ==
  [id |-> id, duration |-> duration, phase |-> "shown", left |-> duration,
   age |-> 0]

\* a display timer that starts the exit but arms no removal
DismissWithoutRemoval(notice) ==
  [notice EXCEPT !.phase = "exiting", !.left = -1]

\* the display timer's callback: exit classes, removal timer armed
Dismiss(notice) ==
  [notice EXCEPT !.phase = "exiting", !.left = ExitDelay]

\* a removal that takes the first child of the container
RemoveFirstChild(children, id) == Tail(children)

\* if (mount.contains(toast)) mount.removeChild(toast)
RemoveChild(children, id) ==
  SelectSeq(children, LAMBDA n : n.id # id)

\* the notices on the page
AllNotices == UNION {{tBoxes[b][i] : i \in DOMAIN tBoxes[b]} : b \in Boxes}

\* time left on the timers that are armed
Armed == {n.left : n \in AllNotices} \ {-1}

\* amounts of time that pass between two steps besides the time to the
\* next timer, in ms
ToastSteps == {1000}

\* window 'toast' listener of ui/toast.ts, for an event dispatched by
\* toast.success / error / info / warning or by other code
ToastEvent(detail) ==
  LET outcome == IF ValidDetail(detail) THEN ShowToast(tHasMount)
                 ELSE "warn"
  IN
  /\ tNext <= MaxNotify
  /\ tBoxes' = IF outcome = "append"
               THEN [tBoxes EXCEPT
                       !.mount = Append(@, Notice(tNext, ToastDuration))]
               ELSE tBoxes
  /\ tFate' = [tFate EXCEPT ![tNext] =
                 IF outcome = "append"
                 THEN [state |-> "present", duration |-> ToastDuration,
                       age |-> 0]
                 ELSE [NoFate EXCEPT !.state = "none"]]
  /\ tWarnings' = IF outcome = "warn" THEN tWarnings + 1 ELSE tWarnings
  /\ tLast' = [valid |-> ValidDetail(detail),
               created |-> outcome = "append",
               warned |-> outcome = "warn",
               uncaught |-> outcome = "throw"]
  /\ tNext' = tNext + 1
  /\ UNCHANGED tHasMount
  /\ UNCHANGED coreVars

\* Toast.show({type, message, duration})
ToastShowCall(duration) ==
  /\ tNext <= MaxNotify
  /\ tBoxes' = [tBoxes EXCEPT
                  !.container = Append(@, Notice(tNext, duration))]
  /\ tFate' = [tFate EXCEPT ![tNext] =
                 [state |-> "present", duration |-> duration, age |-> 0]]
  /\ tNext' = tNext + 1
  /\ UNCHANGED <<tHasMount, tWarnings, tLast>>
  /\ UNCHANGED coreVars

\* time passes; a timer that is due runs before anything later happens
ToastElapse(d) ==
  /\ Armed # {}
  /\ d > 0
  /\ \A left \in Armed : d <= left
  /\ tBoxes' = [b \in Boxes |->
                  [i \in DOMAIN tBoxes[b] |->
                     LET n == tBoxes[b][i] IN
                     IF n.left = -1 THEN n
                     ELSE [n EXCEPT !.left = @ - d, !.age = @ + d]]]
  /\ UNCHANGED <<tHasMount, tNext, tFate, tWarnings, tLast>>
  /\ UNCHANGED coreVars

\* the display timer of notice id runs
ToastExit(b, id) ==
  /\ \E i \in DOMAIN tBoxes[b] :
       /\ tBoxes[b][i].id = id
       /\ tBoxes[b][i].phase = "shown"
       /\ tBoxes[b][i].left = 0
       /\ tBoxes' = [tBoxes EXCEPT ![b][i] = Dismiss(@)]
  /\ UNCHANGED <<tHasMount, tNext, tFate, tWarnings, tLast>>
  /\ UNCHANGED coreVars

\* the removal timer of notice id runs
ToastRemove(b, id) ==
  /\ \E i \in DOMAIN tBoxes[b] :
       /\ tBoxes[b][i].id = id
       /\ tBoxes[b][i].phase = "exiting"
       /\ tBoxes[b][i].left = 0
       /\ tFate' = [tFate EXCEPT ![id] =
                      [@ EXCEPT !.state = "removed",
                                !.age = tBoxes[b][i].age]]
  /\ tBoxes' = [tBoxes EXCEPT ![b] = RemoveChild(@, id)]
  /\ UNCHANGED <<tHasMount, tNext, tWarnings, tLast>>
  /\ UNCHANGED coreVars

\* what the notifiers leave alone
besideToast ==
  <<headerVars, formVars, storeVars, loadVars, buttonVars, deleteVars,
    modalVars>>

\* what happens to the notices without anybody acting
ToastTime ==
  \/ (\E d \in ToastSteps \cup Armed : ToastElapse(d))
       /\ UNCHANGED besideToast
  \/ (\E b \in Boxes, id \in 1..MaxNotify : ToastExit(b, id))
       /\ UNCHANGED besideToast
  \/ (\E b \in Boxes, id \in 1..MaxNotify : ToastRemove(b, id))
       /\ UNCHANGED besideToast

NextToast ==
  \/ (\E detail \in EventDetails : ToastEvent(detail))
       /\ UNCHANGED besideToast
  \/ (\E duration \in ShowDurations : ToastShowCall(duration))
       /\ UNCHANGED besideToast
  \/ ToastTime

\* a page with or without #toasts, nothing shown yet
InitToast ==
  /\ CoreInit
  /\ location = [t \in Tabs |-> "/dashboard"]
  /\ HeaderIdle
  /\ FormIdle
  /\ StoreIdle
  /\ PagesIdle
  /\ tHasMount \in BOOLEAN
  /\ ToastsEmpty

SpecToast == InitToast /\ [][NextToast]_vars

\* timers run and time passes whatever the user does
SpecToastFair == SpecToast /\ WF_vars(ToastTime)

\* -------------------------------------------------------------- page load
\* first path segments the App can find itself on
Pages == {"login", "register", "dashboard", "tasks"}

\* pages shown without a credential
PublicPages == {"login", "register"}

\* a guard that lets every page load its data
AuthGuardOff(authenticated, page) == FALSE

\* loadInitialData: !api.isAuthenticated() && currentPage !== 'login'
\*                  && currentPage !== 'register'
AuthGuard(authenticated, page) ==
  ~authenticated /\ page \notin PublicPages

\* loadInitialData's switch: the calls each page's loader makes
\* (loadDashboardData asks for three lists, the other loaders are empty)
DataLoads(page) ==
  IF page = "dashboard"
  THEN {"getTasks", "getNotes", "getCollections"}
  ELSE {}

\* DOMContentLoaded on a page of the App: the module's ApiClient is
\* constructed, then new App() -> init() -> loadInitialData()
AppLoad(page) ==
  /\ token' = [token EXCEPT !["tabA"] = storage]
  /\ storage' = storage
  /\ fresh' = fresh \cup {"tabA"}
  /\ lPage' = page
  /\ LET authenticated == IsAuthenticated("tabA")' IN
     IF AuthGuard(authenticated, page)
     THEN /\ location' = [location EXCEPT !["tabA"] = "/login"]
          /\ lRequests' = {}
          /\ lLoad' = [auth |-> authenticated, redirected |-> TRUE,
                       issued |-> 0]
     ELSE /\ location' = location
          /\ lRequests' = {[op |-> o, auth |-> RequestInterceptor("tabA")'] :
                             o \in DataLoads(page)}
          /\ lLoad' = [auth |-> authenticated, redirected |-> FALSE,
                       issued |-> Cardinality(DataLoads(page))]
  /\ UNCHANGED <<inflight, micro, cred, lastWrite>>

\* one of the page's data-loading requests settles: response interceptor,
\* then Promise.all / loadDashboardData's catch
LoadRespond(r, status) ==
  LET eff == ResponseInterceptor(status) IN
  /\ r \in lRequests
  /\ IF eff.clear
     THEN ClearToken("tabA") /\ Wrote("clear", Null)
     ELSE UNCHANGED <<token, storage>> /\ NoWrite
  /\ location' = IF eff.redirect
                 THEN [location EXCEPT !["tabA"] = "/login"]
                 ELSE location
  /\ lRequests' = lRequests \ {r}
  /\ UNCHANGED <<lPage, lLoad, inflight, micro>>

\* the login page's form logs in: api.login answered 2xx, handleLogin
LoadLogin(tk) ==
  /\ lPage = "login"
  /\ SetToken("tabA", tk)
  /\ Wrote("set", tk)
  /\ location' = [location EXCEPT !["tabA"] = "/dashboard"]
  /\ UNCHANGED <<lPage, lRequests, lLoad, inflight, micro>>

\* [data-logout] click on a loaded page
LoadLogout ==
  /\ lPage # "none"
  /\ ClearToken("tabA")
  /\ Wrote("clear", Null)
  /\ location' = [location EXCEPT !["tabA"] = "/login"]
  /\ UNCHANGED <<lPage, lRequests, lLoad, inflight, micro>>

\* what a page load leaves alone
besideLoad ==
  <<headerVars, formVars, storeVars, toastVars, buttonVars, deleteVars,
    modalVars>>

NextLoad ==
  \/ (\E page \in Pages : AppLoad(page)) /\ UNCHANGED besideLoad
  \/ (\E r \in lRequests, status \in Statuses : LoadRespond(r, status))
       /\ UNCHANGED besideLoad
  \/ (\E tk \in Tokens : LoadLogin(tk)) /\ UNCHANGED besideLoad
  \/ LoadLogout /\ UNCHANGED besideLoad

\* before the first page load
InitLoad ==
  /\ CoreInit
  /\ HeaderIdle
  /\ FormIdle
  /\ StoreIdle
  /\ ToastIdle
  /\ PagesIdle

\* page loads of one tab, logins and logouts between them
SpecLoad == InitLoad /\ [][NextLoad]_vars

\* ---------------------------------------------------------- submit button
\* labels a template gives the submit button
ButtonTexts == {"Save", "Sign in"}

\* cases of handleFormSubmission's switch
KnownActions ==
  {"login", "register", "create-task", "create-note", "create-collection",
   "create-tag"}

\* values of data-api-form
FormActions == KnownActions \cup {"unknown"}

\* a handler that resets the button only after a success
RestoreOnSuccess(outcome, originalText) ==
  IF outcome = "fulfilled"
  THEN [disabled |-> FALSE, text |-> originalText]
  ELSE [disabled |-> TRUE, text |-> "Loading..."]

\* finally { submitButton.disabled = false;
\*           submitButton.textContent = originalText }
Restore(outcome, originalText) ==
  [disabled |-> FALSE, text |-> originalText]

\* submit event of the form: the listener of initForms calls
\* handleFormSubmission, which runs to the handler's await; an unknown
\* action throws at once, through finally, into handleFormError.
\* A disabled submit button lets no submit event through.
ButtonSubmit(action) ==
  /\ ~bDisabled
  /\ IF action \in KnownActions
     THEN /\ bDisabled' = TRUE
          /\ bText' = "Loading..."
          /\ bPending' = [action |-> action, originalText |-> bText]
          /\ bLast' = [bLast EXCEPT !.action = action,
                                    !.outcome = "pending"]
     ELSE LET button == Restore("threw", bText) IN
          /\ bDisabled' = button.disabled
          /\ bText' = button.text
          /\ bPending' = bPending
          /\ bLast' = [bLast EXCEPT !.action = action, !.outcome = "threw"]
  /\ UNCHANGED coreVars

\* the pending handler's request settles: response interceptor, the api
\* method, the handler's own navigation, 'Success!' or the throw, finally
ButtonSettle(status, tk) ==
  LET eff    == ResponseInterceptor(status)
      button == Restore(eff.settle, bPending.originalText)
      login  == bPending.action = "login" /\ eff.settle = "fulfilled"
  IN
  /\ bPending # NoHandler
  /\ IF eff.clear THEN ClearToken("tabA") /\ Wrote("clear", Null)
     ELSE IF login THEN SetToken("tabA", tk) /\ Wrote("set", tk)
     ELSE UNCHANGED <<token, storage>> /\ NoWrite
  /\ location' = IF eff.redirect
                 THEN [location EXCEPT !["tabA"] = "/login"]
                 ELSE IF login
                 THEN [location EXCEPT !["tabA"] = "/dashboard"]
                 ELSE location
  /\ bDisabled' = button.disabled
  /\ bText' = button.text
  /\ bPending' = NoHandler
  /\ bLast' = [bLast EXCEPT !.outcome = eff.settle]
  /\ UNCHANGED <<inflight, micro>>

\* what a form's button leaves alone
besideButton ==
  <<headerVars, formVars, storeVars, toastVars, loadVars, deleteVars,
    modalVars>>

NextButton ==
  \/ (\E action \in FormActions : ButtonSubmit(action))
       /\ UNCHANGED besideButton
  \/ (\E status \in Statuses, tk \in Tokens : ButtonSettle(status, tk))
       /\ UNCHANGED besideButton

\* a form with a submit button of any label
InitButton ==
  /\ CoreInit
  /\ HeaderIdle
  /\ FormIdle
  /\ StoreIdle
  /\ ToastIdle
  /\ LoadIdle
  /\ DeleteIdle
  /\ ModalIdle
  /\ bText \in ButtonTexts
  /\ bDisabled = FALSE
  /\ bPending = NoHandler
  /\ bLast = [NoSubmission EXCEPT !.label = bText]

\* submissions of one form, one after the other
SpecButton == InitButton /\ [][NextButton]_vars

\* ---------------------------------------------------------- task deletion
\* a click handler that toasts and reloads however the request ended
AfterDeleteAlways(settled) == [toast |-> TRUE, reload |-> TRUE]

\* the click handler after `await deleteTask(taskId)`: toast.success and
\* loadTasks() in the try block, console.error alone in the catch
AfterDelete(settled) ==
  [toast  |-> settled = "fulfilled",
   reload |-> settled = "fulfilled"]

\* click on the delete button of task id's row, and the user's answer to
\* confirm(): deleteTask(id) is called when the answer is yes
DeleteClick(id, answer) ==
  /\ dHist.dialogs < MaxDeletes
  /\ IF answer
     THEN /\ dPending' = [dPending EXCEPT ![id] = @ + 1]
          /\ dHist' = [dHist EXCEPT !.dialogs = @ + 1,
                                    !.confirmed[id] = @ + 1,
                                    !.dispatched[id] = @ + 1]
     ELSE /\ dPending' = dPending
          /\ dHist' = [dHist EXCEPT !.dialogs = @ + 1, !.declined = @ + 1]
  /\ UNCHANGED dLoading
  /\ UNCHANGED coreVars

\* a delete request for task id settles: response interceptor, deleteTask,
\* then the rest of the click handler
DeleteRespond(id, status) ==
  LET eff  == ResponseInterceptor(status)
      then == AfterDelete(eff.settle)
  IN
  /\ dPending[id] > 0
  /\ IF eff.clear
     THEN ClearToken("tabA") /\ Wrote("clear", Null)
     ELSE UNCHANGED <<token, storage>> /\ NoWrite
  /\ location' = IF eff.redirect
                 THEN [location EXCEPT !["tabA"] = "/login"]
                 ELSE location
  /\ dPending' = [dPending EXCEPT ![id] = @ - 1]
  /\ dLoading' = IF then.reload THEN dLoading + 1 ELSE dLoading
  /\ dHist' = [dHist EXCEPT
                 !.succeeded = IF eff.settle = "fulfilled" THEN @ + 1 ELSE @,
                 !.failed = IF eff.settle = "fulfilled" THEN @ ELSE @ + 1,
                 !.toasts = IF then.toast THEN @ + 1 ELSE @,
                 !.reloads = IF then.reload THEN @ + 1 ELSE @]
  /\ UNCHANGED <<inflight, micro>>

\* a list reload settles: loadTasks renders or writes its failure text
ReloadRespond(status) ==
  LET eff == ResponseInterceptor(status) IN
  /\ dLoading > 0
  /\ IF eff.clear
     THEN ClearToken("tabA") /\ Wrote("clear", Null)
     ELSE UNCHANGED <<token, storage>> /\ NoWrite
  /\ location' = IF eff.redirect
                 THEN [location EXCEPT !["tabA"] = "/login"]
                 ELSE location
  /\ dLoading' = dLoading - 1
  /\ UNCHANGED <<dPending, dHist, inflight, micro>>

\* what the delete buttons leave alone
besideDelete ==
  <<headerVars, formVars, storeVars, toastVars, loadVars, buttonVars,
    modalVars>>

NextDelete ==
  \/ (\E id \in TaskIds, answer \in BOOLEAN : DeleteClick(id, answer))
       /\ UNCHANGED besideDelete
  \/ (\E id \in TaskIds, status \in Statuses : DeleteRespond(id, status))
       /\ UNCHANGED besideDelete
  \/ (\E status \in Statuses : ReloadRespond(status))
       /\ UNCHANGED besideDelete

\* the tasks page with its rows rendered
InitDelete ==
  /\ CoreInit
  /\ location = [t \in Tabs |-> "/dashboard"]
  /\ HeaderIdle
  /\ FormIdle
  /\ StoreIdle
  /\ ToastIdle
  /\ PagesIdle

\* delete clicks on the tasks page
SpecDelete == InitDelete /\ [][NextDelete]_vars

\* ------------------------------------------------------------------ modals
\* whether `node` is a child of document.body
Contains(body, node) == \E i \in DOMAIN body : body[i] = node

\* document.body.appendChild(node): a node already there moves to the end
AppendChild(body, node) ==
  Append(SelectSeq(body, LAMBDA n : n # node), node)

Backdrop(m) == [modal |-> m, part |-> "backdrop"]

Element(m) == [modal |-> m, part |-> "element"]

\* Modal.close(): removeChild(backdrop), removeChild(element),
\* overflow = ''.  removeChild of a node that is not a child throws
\* NotFoundError, and the statements after it do not run.
Close(m, body, overflow) ==
  IF ~Contains(body, Backdrop(m))
  THEN [body |-> body, overflow |-> overflow, raised |-> TRUE]
  ELSE LET rest == SelectSeq(body, LAMBDA n : n # Backdrop(m)) IN
       IF ~Contains(rest, Element(m))
       THEN [body |-> rest, overflow |-> overflow, raised |-> TRUE]
       ELSE [body |-> SelectSeq(rest, LAMBDA n : n # Element(m)),
             overflow |-> "", raised |-> FALSE]

\* new Modal(content, {closable})
ModalNew(m, closable) ==
  /\ mMade[m] = "none"
  /\ mMade' = [mMade EXCEPT ![m] = IF closable THEN "closable" ELSE "plain"]
  /\ mOp' = "new"
  /\ mRaised' = {}
  /\ UNCHANGED <<mBody, mOverflow>>
  /\ UNCHANGED coreVars

\* modal.show()
ModalShow(m) ==
  /\ mMade[m] # "none"
  /\ mBody' = AppendChild(AppendChild(mBody, Backdrop(m)), Element(m))
  /\ mOverflow' = "hidden"
  /\ mOp' = "show"
  /\ mRaised' = {}
  /\ UNCHANGED mMade
  /\ UNCHANGED coreVars

\* close() of modal m runs, called by `op`
ModalCloses(m, op) ==
  LET after == Close(m, mBody, mOverflow) IN
  /\ mBody' = after.body
  /\ mOverflow' = after.overflow
  /\ mOp' = op
  /\ mRaised' = IF after.raised THEN {m} ELSE {}
  /\ UNCHANGED mMade
  /\ UNCHANGED coreVars

\* modal.close() called by the code that owns the modal
ModalClose(m) ==
  /\ mMade[m] # "none"
  /\ ModalCloses(m, "close")

\* click on the backdrop or on the close button of a modal on the page
ModalClick(m, target) ==
  /\ mMade[m] = "closable"
  /\ Contains(mBody, IF target = "backdrop" THEN Backdrop(m) ELSE Element(m))
  /\ ModalCloses(m, target)

\* the modals of `ms` close one after the other, each in its own listener
RECURSIVE CloseAll(_, _, _)
CloseAll(ms, body, overflow) ==
  IF ms = {} THEN [body |-> body, overflow |-> overflow, raised |-> {}]
  ELSE LET m     == CHOOSE x \in ms : TRUE
           one   == Close(m, body, overflow)
           after == CloseAll(ms \ {m}, one.body, one.overflow)
       IN [after EXCEPT !.raised = IF one.raised THEN @ \cup {m} ELSE @]

\* Escape is pressed: the keydown listener of every closable modal ever
\* constructed calls its close()
ModalEscape ==
  LET listening == {m \in Modals : mMade[m] = "closable"}
      after     == CloseAll(listening, mBody, mOverflow)
  IN
  /\ listening # {}
  /\ mBody' = after.body
  /\ mOverflow' = after.overflow
  /\ mOp' = "escape"
  /\ mRaised' = after.raised
  /\ UNCHANGED mMade
  /\ UNCHANGED coreVars

\* what the modals leave alone
besideModal ==
  <<headerVars, formVars, storeVars, toastVars, loadVars, buttonVars,
    deleteVars>>

NextModal ==
  \/ (\E m \in Modals, closable \in BOOLEAN : ModalNew(m, closable))
       /\ UNCHANGED besideModal
  \/ (\E m \in Modals : ModalShow(m)) /\ UNCHANGED besideModal
  \/ (\E m \in Modals : ModalClose(m)) /\ UNCHANGED besideModal
  \/ (\E m \in Modals, target \in {"backdrop", "button"} :
        ModalClick(m, target))
       /\ UNCHANGED besideModal
  \/ ModalEscape /\ UNCHANGED besideModal

\* a page on which no modal was constructed yet
InitModal ==
  /\ CoreInit
  /\ location = [t \in Tabs |-> "/dashboard"]
  /\ HeaderIdle
  /\ FormIdle
  /\ StoreIdle
  /\ ToastIdle
  /\ PagesIdle

\* modals constructed, shown and closed in any order
SpecModal == InitModal /\ [][NextModal]_vars

\* ------------------------------------------------------------ properties
\* the call whose response is being handled, and its tab
Handling == micro.stage # "idle"

\* the header a request carries when the credential is tk
HeaderOf(tk) == IF tk # Null THEN Bearer(tk) ELSE NoHeader

\* the requests a step puts on the wire
Dispatched(r) == CopiesIn(r, inflight') > CopiesIn(r, inflight)

\* C1: once a 401 response has been handled by the interceptor, and through
\* everything the method and the controller do with the error afterwards,
\* the tab's in-memory token and the 'auth_token' entry are absent and the
\* navigation target is '/login'.
C1_UnauthorizedResetsSession ==
  (Handling /\ micro.status = 401) =>
     /\ token[micro.tab] = Null
     /\ storage = Null
     /\ location[micro.tab] = "/login"

\* a 401 arrived while a credential was stored and the page was elsewhere,
\* and the controller has finished with the error
C1_Witness ==
  /\ micro.stage = "done"
  /\ micro.status = 401
  /\ micro.before.token # Null
  /\ micro.before.storage # Null
  /\ micro.before.location = "/dashboard"
  /\ micro.body # NoBody

\* C2: every failed call (no response or a non-2xx status) has shown
\* exactly one toast by the time its handling is over.
C2_OneToastPerFailedCall ==
  (micro.stage = "done" /\ ~Is2xx(micro.status)) => micro.toasts = 1

\* C3: with a single client, every request put on the wire carries
\* 'Bearer <credential>' for the credential of the session at that moment
\* (set by the last successful login, cleared by logout and by a 401), and
\* no Authorization header when there is none.
C3_HeaderFollowsSession ==
  [][\A r \in BagToSet(inflight') :
        Dispatched(r) => r.auth = HeaderOf(cred)]_vars

\* a request sent after a successful login carries that login's token
C3_Witness ==
  /\ lastWrite = "set"
  /\ \E r \in BagToSet(inflight) :
        r.op # "login" /\ r.tab = "tabA" /\ r.auth = Bearer(cred)

\* C4: whatever the tabs did, a request put on the wire by any tab carries
\* the credential held under 'auth_token' at that moment, and none once the
\* key is removed.
C4_HeaderMatchesStorage ==
  [][\A r \in BagToSet(inflight') :
        Dispatched(r) => r.auth = HeaderOf(storage)]_vars

\* C5: a client constructed after the last credential write is
\* authenticated and sends exactly the written credential if the write was
\* a set, and is not authenticated if it was a clear.
C5_ReloadKeepsCredential ==
  \A t \in fresh :
     /\ lastWrite = "set" =>
          IsAuthenticated(t) /\ RequestInterceptor(t) = Bearer(cred)
     /\ lastWrite = "clear" => ~IsAuthenticated(t)

\* a page reloaded after a login stored a token
C5_Witness ==
  /\ micro.stage = "idle"
  /\ lastWrite = "set"
  /\ fresh # {}

\* C6: in a single client the in-memory token and the stored value agree:
\* both are the token after a set, both absent after a clear.
C6_MemoryAgreesWithStorage ==
  /\ token["tabA"] = storage
  /\ lastWrite = "set" => token["tabA"] = cred /\ storage = cred
  /\ lastWrite = "clear" => token["tabA"] = Null /\ storage = Null

\* login has just stored the token it received
C6_Witness ==
  /\ micro.stage = "controller"
  /\ micro.op = "login"
  /\ Is2xx(micro.status)
  /\ micro.tab = "tabA"
  /\ storage = micro.body.access_token
  /\ micro.before.storage # storage

\* the steps that handle a response
HandlingStep == micro'.stage # "idle" /\ micro'.stage # micro.stage

\* C7: a step handling a response that is neither a 401 nor a successful
\* login changes no in-memory token and not the stored value; the stored
\* value changes only in the 401 path, in a successful login and in logout.
C7_OnlyWriters ==
  [][/\ (/\ HandlingStep
         /\ micro'.status # 401
         /\ ~(micro'.op = "login" /\ Is2xx(micro'.status)))
        => (token' = token /\ storage' = storage)
     /\ storage' # storage =>
          \/ HandlingStep /\ micro'.stage = "method" /\ micro'.status = 401
          \/ HandlingStep /\ micro'.stage = "controller"
               /\ micro'.op = "login" /\ Is2xx(micro'.status)
          \/ \E t \in Tabs : Logout(t)]_vars

\* a transport failure was handled to the end with the credential intact
C7_Witness ==
  /\ micro.stage = "done"
  /\ micro.status = NoResponse
  /\ micro.before.storage # Null
  /\ storage = micro.before.storage
  /\ token[micro.tab] = micro.before.token

\* C8: a failed call rejects: the method's promise is rejected and returns
\* nothing, and in the controller the error handler runs, not the code
\* after the await.
C8_FailureIsRethrown ==
  (micro.stage \in {"controller", "done"} /\ ~Is2xx(micro.status)) =>
     /\ micro.settled = "rejected"
     /\ micro.result = NoBody
     /\ micro.stage = "done" => micro.handler = "catch"

\* a 401 cleared the credential and still reached the caller's handler
C8_Witness ==
  /\ micro.stage = "done"
  /\ micro.status = 401
  /\ micro.handler = "catch"
  /\ micro.before.storage # Null
  /\ storage = Null

\* C9: a logical call is sent at most once, whatever its outcome.
C9_AtMostOneAttempt ==
  /\ \A r \in BagToSet(inflight) : r.sends <= 1
  /\ Handling => micro.sends <= 1

\* a call failed with a 5xx, was handled to the end and nothing was resent
C9_Witness ==
  /\ micro.stage = "done"
  /\ micro.status = 500
  /\ micro.sends = 1
  /\ inflight = EmptyBag

Stale401 ==
  /\ Handling
  /\ micro.status = 401
  /\ micro.before.lastWrite = "set"
  /\ micro.before.storage # Null
  /\ micro.auth # Bearer(micro.before.storage)

\* C19 as stated: a 401 for a request sent before the last login leaves the
\* credential of that login stored.
C19_Stale401KeepsFreshSession ==
  Stale401 => /\ storage = micro.before.storage
              /\ token[micro.tab] = micro.before.token

\* C19 amended: the 401 of such a request too removes the credential that
\* is stored when it is handled, the fresh one included, and redirects.
C19_Stale401ClearsFreshSession ==
  Stale401 => /\ storage = Null
              /\ token[micro.tab] = Null
              /\ location[micro.tab] = "/login"

\* a request went out without a credential, a login then stored one, and
\* the request's 401 has been handled to the end
C19_Witness ==
  /\ Stale401
  /\ micro.stage = "done"
  /\ micro.tab = "tabA"
  /\ micro.op # "login"
  /\ micro.auth = NoHeader
  /\ micro.before.token = micro.before.storage

\* -------------------------------------------------------- debounced search
\* the burst is over: the delay has passed and no timer is left
Settled(gap) == gap >= DebounceDelay /\ hTimer = NoTimer

\* the search calls of a burst are one call, made when the delay had passed
\* since the burst's last member, with that member's value
OneLateCall(burst, gap) ==
  burst.active =>
    /\ burst.calls <= 1
    /\ burst.calls = 1 => burst.onTime /\ burst.callArg = burst.last
    /\ Settled(gap) => burst.calls = 1

\* C11 as stated: a burst of input events, each less than 300 ms after the
\* one before, gives exactly one search call, no earlier than 300 ms after
\* the last event and with the last event's value.
C11_OneCallPerEventBurst == OneLateCall(hBurst.event, hClock.event)

\* C11 amended: the same holds of the bursts of calls of the debounced
\* function, which the header box calls only for a trimmed value of at
\* least 2 characters.
C11_OneCallPerDebouncedBurst == OneLateCall(hBurst.call, hClock.call)

C11_Witness ==
  /\ hBurst.event.n = 3
  /\ hBurst.call.n = 2
  /\ hBurst.call.calls = 1
  /\ hBurst.call.callArg = <<"a", "b", "c">>
  /\ hValue = <<"a", "b", "c">>

\* C15: whatever the order of dispatch, the panel shows the content of the
\* fulfilled response that was handled last: none is dropped as stale.
C15_LastHandledResponseWins ==
  hShown.last # NoQuery => panel.content = hShown.last

C15_Witness ==
  /\ sreqs = <<>>
  /\ hShown.newestShown
  /\ ~hShown.lastWasNewest
  /\ panel.content = hShown.last
  /\ panel.content # hShown.newest
  /\ ~panel.hidden

\* C20: while the trimmed input of the header box is shorter than 2
\* characters the results panel is hidden.
C20_ShortInputKeepsPanelHidden ==
  Len(Trim(hValue)) < MinQueryLen => panel.hidden

\* ------------------------------------------------------------------ forms
\* C12: the tag_ids a form sends holds integers only and no id twice.
C12_TagIdsAreASet ==
  fSent.sent /\ fSent.defined =>
    /\ \A i \in DOMAIN fSent.ids : ~fSent.ids[i].nan
    /\ \A i, j \in DOMAIN fSent.ids : i # j => fSent.ids[i] # fSent.ids[j]

\* 'location: message', the location path joined by dots
ViolationText(v) == Join(v.location, ".") \o ": " \o v.message

Separators == {",", ", ", "; ", " "}

\* C13: for a 422 whose detail is a list of violations the message shown is
\* the join of the violations as 'location: message', and the error caught
\* carries the list of the response.
C13_ViolationsAreSpelledOut ==
  (fError.status = 422 /\ fError.detail.kind = "list" /\ fToast # NoToast) =>
    /\ \E sep \in Separators :
         fToast.message =
           Join([i \in DOMAIN fError.detail.items |->
                   ViolationText(fError.detail.items[i])], sep)
    /\ fError.detail = fResp.detail

\* ---------------------------------------------------------------- storage
\* C14: no credential operation lets an exception of the storage escape.
C14_StorageFailureNeverEscapes == ~sEscaped

\* ---------------------------------------------------------------- notices
\* children in the order of their notify calls
InCallOrder(children) ==
  \A i, j \in DOMAIN children : i < j => children[i].id < children[j].id

\* a notice is where its own timers put it, whatever the others do
OnSchedule(n) ==
  n.age + n.left =
    IF n.phase = "shown" THEN n.duration ELSE n.duration + ExitDelay

Displayed(id) == \E n \in AllNotices : n.id = id

\* C16: the notices of a container stand in the order of their notify
\* calls, each one is on its own schedule, and a notice is on the page
\* exactly until its own removal: no timer or removal of another notice
\* delays, removes or reorders it.
C16_NoticesStackIndependently ==
  /\ \A b \in Boxes : InCallOrder(tBoxes[b])
  /\ \A n \in AllNotices : OnSchedule(n)
  /\ \A id \in 1..MaxNotify : tFate[id].state = "present" <=> Displayed(id)

C16_Witness ==
  /\ tFate[1].state = "present"
  /\ tFate[2].state = "removed"
  /\ tFate[3].state = "present"
  /\ Len(tBoxes.container) = 2
  /\ tBoxes.container[1].phase = "shown"

\* C17: every notice that was created is removed in the end, without any
\* user action, and when it is removed its display duration and the exit
\* transition have passed and it is on the page no more.
C17_EveryNoticeIsDismissed ==
  /\ \A id \in 1..MaxNotify :
       (tFate[id].state = "present") ~> (tFate[id].state = "removed")
  /\ [](\A id \in 1..MaxNotify :
          tFate[id].state = "removed" =>
            /\ tFate[id].age = tFate[id].duration + ExitDelay
            /\ ~Displayed(id))

C17_Witness ==
  /\ tFate[1].state = "removed"
  /\ tFate[1].duration = ToastDuration
  /\ tFate[2].state = "removed"
  /\ tFate[2].duration = DefaultDuration
  /\ AllNotices = {}

\* C18: the listener of ui/toast.ts raises no exception; without #toasts
\* no notice is created and the absence has been logged; a malformed
\* detail is logged and creates no notice.
C18_NotifierNeverThrows ==
  /\ ~tLast.uncaught
  /\ ~tHasMount => tBoxes.mount = <<>> /\ tWarnings >= 1
  /\ ~tLast.valid => tLast.warned /\ ~tLast.created

C18_Witness ==
  /\ ~tHasMount
  /\ tNext > 2
  /\ tWarnings = 2
  /\ tLast.valid
  /\ ~tLast.created

C22_ButtonFollowsHandler ==
  IF bPending # NoHandler
  THEN bDisabled /\ bText = "Loading..."
  ELSE ~bDisabled /\ bText = bLast.label

C22_Witness ==
  /\ bLast.action = "create-task"
  /\ bLast.outcome = "rejected"
  /\ bLast.label = "Sign in"
  /\ bPending = NoHandler
  /\ ~bDisabled
  /\ bText = "Sign in"

\* ---------------------------------------------------------- task deletion
RECURSIVE SumOver(_, _)
SumOver(f, ids) ==
  IF ids = {} THEN 0
  ELSE LET id == CHOOSE x \in ids : TRUE IN f[id] + SumOver(f, ids \ {id})

\* C23: delete requests are those of confirmed dialogs (none for a declined
\* one), and there are as many success toasts and as many list reloads as
\* delete requests that succeeded: none before the success, none after a
\* failure.
C23_DeleteFollowsConfirmAndSuccess ==
  /\ \A id \in TaskIds : dHist.dispatched[id] = dHist.confirmed[id]
  /\ SumOver(dHist.dispatched, TaskIds) + dHist.declined = dHist.dialogs
  /\ SumOver(dPending, TaskIds) + dHist.succeeded + dHist.failed
       = SumOver(dHist.dispatched, TaskIds)
  /\ dHist.toasts = dHist.succeeded
  /\ dHist.reloads = dHist.succeeded

C23_Witness ==
  /\ dHist.declined = 1
  /\ dHist.failed = 1
  /\ dHist.succeeded = 1
  /\ dHist.toasts = 1
  /\ dHist.reloads = 1

\* ------------------------------------------------------------------ modals
\* C24: no operation makes the close() of a closable modal raise an error,
\* whether the modal is shown, was never shown or is closed already.
C24_CloseIsSafe ==
  \A m \in mRaised : mMade[m] # "closable"

====
